---------------------------- MODULE Spec2Model ----------------------------
(***************************************************************************)
(* A model of ipns-utils (src/main.go): the pubsub identifier conversions  *)
(* (getPubSubTopic, getIPNSKey), the record commands (create record,       *)
(* parse record), create id, and the library calls they make.              *)
(*                                                                         *)
(* Strings and byte slices are sequences of byte values 0..255 (a Go       *)
(* string is a byte sequence); text is written as its ASCII codes.         *)
(* TLC's integers are 32 bits wide, so the program's 64-bit integers       *)
(* (seqno, ttl) are kept IntBits bits wide, with the same two's-complement *)
(* conversions between the signed and the unsigned type.                   *)
(***************************************************************************)
EXTENDS Integers, Sequences, FiniteSets, TLC

(***************************************************************************)
(* Byte-sequence helpers                                                   *)
(***************************************************************************)
Min(a, b) == IF a < b THEN a ELSE b

\* F of the value v, with v computed once
With(v, F(_)) == CHOOSE r \in {F(x) : x \in {v}} : TRUE

\* s[from:] of Go for 0 <= from <= len(s) (the callers guard the range)
SliceFrom(s, from) == SubSeq(s, from + 1, Len(s))

\* s[:to] of Go for 0 <= to <= len(s)
SliceTo(s, to) == SubSeq(s, 1, to)

HasPrefix(s, p) == Len(s) >= Len(p) /\ SubSeq(s, 1, Len(p)) = p

\* position (1-based) of character c in an alphabet, 0 when it is not there
IndexOf(alphabet, c) ==
    IF \E i \in 1..Len(alphabet) : alphabet[i] = c
    THEN CHOOSE i \in 1..Len(alphabet) : alphabet[i] = c
    ELSE 0

AllIn(alphabet, s) == \A i \in 1..Len(s) : IndexOf(alphabet, s[i]) # 0

(***************************************************************************)
(* Text encodings: base64 (raw, URL alphabet), base32 and base16 as        *)
(* bit-group encodings, base58btc as a radix conversion.                   *)
(***************************************************************************)
B58Alphabet ==
    <<49, 50, 51, 52, 53, 54, 55, 56, 57, 65, 66, 67, 68, 69, 70, 71, 72, 74,
      75, 76, 77, 78, 80, 81, 82, 83, 84, 85, 86, 87, 88, 89, 90, 97, 98, 99,
      100, 101, 102, 103, 104, 105, 106, 107, 109, 110, 111, 112, 113, 114,
      115, 116, 117, 118, 119, 120, 121, 122>>

B32Alphabet ==
    <<97, 98, 99, 100, 101, 102, 103, 104, 105, 106, 107, 108, 109, 110, 111,
      112, 113, 114, 115, 116, 117, 118, 119, 120, 121, 122, 50, 51, 52, 53,
      54, 55>>

B64UrlAlphabet ==
    <<65, 66, 67, 68, 69, 70, 71, 72, 73, 74, 75, 76, 77, 78, 79, 80, 81, 82,
      83, 84, 85, 86, 87, 88, 89, 90, 97, 98, 99, 100, 101, 102, 103, 104,
      105, 106, 107, 108, 109, 110, 111, 112, 113, 114, 115, 116, 117, 118,
      119, 120, 121, 122, 48, 49, 50, 51, 52, 53, 54, 55, 56, 57, 45, 95>>

B16Alphabet ==
    <<48, 49, 50, 51, 52, 53, 54, 55, 56, 57, 97, 98, 99, 100, 101, 102>>

\* byte i (1-based) of b, 0 past its end
ByteAt(b, i) == IF i <= Len(b) THEN b[i] ELSE 0

\* The bytes b cut into groups of k bits (k in 4..6), the last group padded
\* with zero bits: the digit values of an unpadded base-2^k encoding.
BitGroups(b, k) ==
    [j \in 1..((8 * Len(b) + k - 1) \div k) |->
        LET bit == k * (j - 1)
            at  == bit \div 8
            off == bit % 8
            w   == ByteAt(b, at + 1) * 256 + ByteAt(b, at + 2)
        IN  (w \div (2 ^ (16 - k - off))) % (2 ^ k)]

\* The inverse: groups of k bits joined into whole bytes; left-over bits of
\* the last group are dropped without being checked (Go's non-strict decoders).
BitJoin(v, k) ==
    [i \in 1..((k * Len(v)) \div 8) |->
        LET bit == 8 * (i - 1)
            at  == bit \div k
            off == bit % k
            w   == ByteAt(v, at + 1) * (2 ^ (2 * k)) + ByteAt(v, at + 2) * (2 ^ k)
                   + ByteAt(v, at + 3)
        IN  (w \div (2 ^ (3 * k - off - 8))) % 256]

EncodeBits(alphabet, k, b) ==
    LET g == BitGroups(b, k) IN [j \in 1..Len(g) |-> alphabet[g[j] + 1]]

\* [ok, bytes]: fails on a character outside the alphabet and on a length no
\* whole number of bytes encodes to.
DecodeBits(alphabet, k, s) ==
    IF ~AllIn(alphabet, s) \/ ((8 * ((k * Len(s)) \div 8) + k - 1) \div k) # Len(s)
    THEN [ok |-> FALSE, bytes |-> <<>>]
    ELSE [ok |-> TRUE,
          bytes |-> BitJoin([j \in 1..Len(s) |-> IndexOf(alphabet, s[j]) - 1], k)]

\* base64.RawURLEncoding.EncodeToString
Base64RawURLEncode(b) == EncodeBits(B64UrlAlphabet, 6, b)

\* base64.RawURLEncoding.DecodeString: CR and LF are skipped, any other
\* character outside the alphabet (padding included) is a CorruptInputError.
Base64RawURLDecode(s) ==
    DecodeBits(B64UrlAlphabet, 6, SelectSeq(s, LAMBDA c : c # 10 /\ c # 13))

\* One long division of the big-endian digit string ds (radix from) by to:
\* the quotient's digits so far in q (no leading zero), the running
\* remainder in rem.
RECURSIVE LongDiv(_, _, _, _, _, _)
LongDiv(ds, from, to, i, rem, q) ==
    IF i > Len(ds) THEN [q |-> q, rem |-> rem]
    ELSE LET cur == rem * from + ds[i]
             nq  == IF q = <<>> /\ cur \div to = 0 THEN q ELSE Append(q, cur \div to)
         IN  IF Len(nq) >= 0 THEN LongDiv(ds, from, to, i + 1, cur % to, nq) ELSE <<>>

\* Digits (radix to, big-endian, no leading zero) of the number whose digits
\* in radix from are ds.
RECURSIVE Radix(_, _, _, _)
Radix(ds, from, to, acc) ==
    IF ds = <<>> THEN acc
    ELSE LET d   == LongDiv(ds, from, to, 1, 0, <<>>)
             nxt == <<d.rem>> \o acc
         IN  IF Len(nxt) > 0 THEN Radix(d.q, from, to, nxt) ELSE <<>>

\* number of leading elements of s equal to z
LeadingCount(s, z) ==
    IF \A i \in 1..Len(s) : s[i] = z THEN Len(s)
    ELSE (CHOOSE i \in 1..Len(s) : s[i] # z /\ \A j \in 1..(i - 1) : s[j] = z) - 1

\* Digits of radix r (big-endian) taken two at a time as digits of radix r*r,
\* and back; a leading zero digit changes no number.
PairUp(ds, r) ==
    LET e == IF Len(ds) % 2 = 1 THEN <<0>> \o ds ELSE ds
    IN  [i \in 1..(Len(e) \div 2) |-> e[2 * i - 1] * r + e[2 * i]]

UnPair(ps, r) ==
    LET e == [i \in 1..(2 * Len(ps)) |->
                 IF i % 2 = 1 THEN ps[(i + 1) \div 2] \div r ELSE ps[i \div 2] % r]
    IN  SliceFrom(e, LeadingCount(e, 0))

\* The number with digits ds in radix from, written in radix to (the long
\* divisions run on pairs of digits).
Convert(ds, from, to) ==
    UnPair(Radix(PairUp(SliceFrom(ds, LeadingCount(ds, 0)), from),
                 from * from, to * to, <<>>), to)

\* base58 (bitcoin alphabet): each leading zero byte is a '1', the rest is the
\* number written in radix 58.
B58Encode(b) ==
    LET z  == LeadingCount(b, 0)
        ds == Convert(SliceFrom(b, z), 256, 58)
    IN  [i \in 1..z |-> B58Alphabet[1]] \o [i \in 1..Len(ds) |-> B58Alphabet[ds[i] + 1]]

B58Decode(s) ==
    IF ~AllIn(B58Alphabet, s) THEN [ok |-> FALSE, bytes |-> <<>>]
    ELSE LET z  == LeadingCount(s, B58Alphabet[1])
             ds == [i \in 1..(Len(s) - z) |-> IndexOf(B58Alphabet, s[z + i]) - 1]
         IN  [ok |-> TRUE, bytes |-> [i \in 1..z |-> 0] \o Convert(ds, 58, 256)]

(***************************************************************************)
(* Varints, multihashes, multibase and CIDs (go-cid, go-multihash,         *)
(* go-multibase as getPubSubTopic and getIPNSKey call them).               *)
(***************************************************************************)
\* binary.Uvarint: [val, n], n the bytes read, 0 when the buffer ends inside
\* the number, -1 when the number is too wide (here: more than 4 bytes).
RECURSIVE UvarintFrom(_, _, _)
UvarintFrom(data, i, acc) ==
    IF i > Len(data) THEN [val |-> 0, n |-> 0]
    ELSE IF i > 4 THEN [val |-> 0, n |-> -1]
    ELSE IF data[i] < 128 THEN [val |-> acc + data[i] * (128 ^ (i - 1)), n |-> i]
    ELSE UvarintFrom(data, i + 1, acc + (data[i] - 128) * (128 ^ (i - 1)))

Uvarint(data) == UvarintFrom(data, 1, 0)

\* binary.PutUvarint
RECURSIVE PutUvarint(_)
PutUvarint(x) ==
    IF x < 128 THEN <<x>> ELSE <<128 + (x % 128)>> \o PutUvarint(x \div 128)

\* multihash function codes go-multihash knows (the ones in its table below
\* 2^8): identity, sha1, sha2-256, sha2-512, sha3-512..sha3-224, keccak.
ValidCode(code) == code \in {0, 17, 18, 19, 20, 21, 22, 23, 26, 27, 28, 29, 86}

\* multihash.Cast: "" when buf is a well-formed multihash, else the error.
MhCastErr(buf) ==
    IF Len(buf) < 2 THEN "ErrTooShort"
    ELSE LET c == Uvarint(buf) IN
         IF c.n <= 0 THEN "ErrVarint"
         ELSE LET l == Uvarint(SliceFrom(buf, c.n)) IN
              IF l.n <= 0 THEN "ErrVarint"
              ELSE IF Len(buf) - c.n - l.n # l.val THEN "ErrInconsistentLen"
              ELSE IF ~ValidCode(c.val) THEN "ErrUnknownCode"
              ELSE ""

\* multihash.Sum(data, multihash.ID, -1): the identity multihash of data
IdentityMultihash(data) == <<0>> \o PutUvarint(Len(data)) \o data

\* A Cid is the string of its bytes (go-cid's Cid{str}).
\* Cid.Version: a 34-byte string starting 0x12 0x20 is a CIDv0, all else is v1.
CidVersion(c) == IF Len(c) = 34 /\ c[1] = 18 /\ c[2] = 32 THEN 0 ELSE 1

\* Cid.Hash: the multihash of the CID, after the version and codec varints.
CidHash(c) ==
    IF CidVersion(c) = 0 THEN c
    ELSE LET n1 == Uvarint(c).n
             n2 == Uvarint(SliceFrom(c, n1)).n
         IN  SliceFrom(c, n1 + n2)

\* Cid.KeyString: the binary form
CidKeyString(c) == c

\* cid.NewCidV1
NewCidV1(codecType, mhash) == PutUvarint(1) \o PutUvarint(codecType) \o mhash

\* multicodec numbers of the codecs named in main.go
Libp2pKey == 114

\* tryNewCidV0: a CIDv0 holds a 32-byte sha2-256 multihash and nothing else
TryNewCidV0(mhash) ==
    IF MhCastErr(mhash) # "" THEN [ok |-> FALSE, cid |-> <<>>, err |-> MhCastErr(mhash)]
    ELSE IF ~(mhash[1] = 18 /\ mhash[2] = 32)
         THEN [ok |-> FALSE, cid |-> <<>>, err |-> "InvalidHashForCidV0"]
         ELSE [ok |-> TRUE, cid |-> mhash, err |-> ""]

\* cid.Cast: the bytes of a CID, either a bare 34-byte sha2-256 multihash
\* (CIDv0) or <version 1><codec><multihash>.
CidCast(data) ==
    IF Len(data) = 34 /\ data[1] = 18 /\ data[2] = 32 THEN TryNewCidV0(data)
    ELSE LET v == Uvarint(data) IN
         IF v.n <= 0 THEN [ok |-> FALSE, cid |-> <<>>, err |-> "ErrVarint"]
         ELSE IF v.val # 1
              THEN [ok |-> FALSE, cid |-> <<>>, err |-> "ExpectedCidVersion1"]
         ELSE LET c == Uvarint(SliceFrom(data, v.n)) IN
              IF c.n <= 0 THEN [ok |-> FALSE, cid |-> <<>>, err |-> "ErrVarint"]
              ELSE LET e == MhCastErr(SliceFrom(data, v.n + c.n)) IN
                   IF e # "" THEN [ok |-> FALSE, cid |-> <<>>, err |-> e]
                   ELSE [ok |-> TRUE, cid |-> data, err |-> ""]

\* The multibase encodings of the model, by prefix character: 'b' base32,
\* 'f' base16, 'z' base58btc, 'u' base64url. (go-multibase knows more; a
\* prefix outside this list is ErrUnsupportedEncoding here.)
MultibasePrefixes == {98, 102, 122, 117}

\* multibase.Encode
MultibaseEncode(prefix, data) ==
    <<prefix>> \o
    CASE prefix = 98  -> EncodeBits(B32Alphabet, 5, data)
      [] prefix = 102 -> EncodeBits(B16Alphabet, 4, data)
      [] prefix = 117 -> EncodeBits(B64UrlAlphabet, 6, data)
      [] OTHER        -> B58Encode(data)

\* multibase.Decode
MultibaseDecode(s) ==
    IF Len(s) = 0 THEN [ok |-> FALSE, bytes |-> <<>>]
    ELSE CASE s[1] = 98  -> DecodeBits(B32Alphabet, 5, Tail(s))
           [] s[1] = 102 -> DecodeBits(B16Alphabet, 4, Tail(s))
           [] s[1] = 117 -> DecodeBits(B64UrlAlphabet, 6, Tail(s))
           [] s[1] = 122 -> B58Decode(Tail(s))
           [] OTHER      -> [ok |-> FALSE, bytes |-> <<>>]

\* cid.Decode: a 46-character string starting "Qm" is a base58 CIDv0, any
\* other string is multibase text of the CID's bytes.
CidDecode(v) ==
    IF Len(v) < 2 THEN [ok |-> FALSE, cid |-> <<>>, err |-> "ErrCidTooShort"]
    ELSE IF Len(v) = 46 /\ SliceTo(v, 2) = <<81, 109>>
         THEN LET h == B58Decode(v) IN
              IF ~h.ok THEN [ok |-> FALSE, cid |-> <<>>, err |-> "Base58DecodeError"]
              ELSE TryNewCidV0(h.bytes)
    ELSE LET d == MultibaseDecode(v) IN
         IF ~d.ok THEN [ok |-> FALSE, cid |-> <<>>, err |-> "MultibaseDecodeError"]
         ELSE CidCast(d.bytes)

\* Cid.String: base58 of the multihash for a CIDv0, base32 multibase of the
\* bytes for a CIDv1.
CidString(c) ==
    IF CidVersion(c) = 0 THEN B58Encode(CidHash(c)) ELSE MultibaseEncode(98, c)

(***************************************************************************)
(* The identifier conversions of main.go                                   *)
(***************************************************************************)
RecordPrefix == <<47, 114, 101, 99, 111, 114, 100, 47>>     \* "/record/"

IpnsPrefix == <<47, 105, 112, 110, 115, 47>>                \* "/ipns/"

Ok(v) == [kind |-> "ok", val |-> v, err |-> ""]

Err(e) == [kind |-> "error", val |-> <<>>, err |-> e]

\* a run-time panic (slice bounds out of range, nil dereference)
Panic(e) == [kind |-> "panic", val |-> <<>>, err |-> e]

\* a nil error
Nil == [kind |-> "nil", err |-> ""]

\* the error value or panic of a failed call, as the caller returns it
Fail(r) == [kind |-> r.kind, err |-> r.err]

\* fmt.Println of a string
Println(s) == s \o <<10>>

\* psr.KeyToTopic
KeyToTopic(key) == RecordPrefix \o Base64RawURLEncode(key)

\* getPubSubTopic with the CIDv1 branch taking the CID's whole binary form
\* (KeyString) where the code takes its multihash
getPubSubTopic_KeyStringV1(ipnsKey) ==
    LET c == CidDecode(ipnsKey) IN
    IF ~c.ok THEN Err(c.err)
    ELSE Ok(KeyToTopic(IpnsPrefix \o CidKeyString(c.cid)))

getPubSubTopic(ipnsKey) ==
    LET c == CidDecode(ipnsKey) IN
    IF ~c.ok THEN Err(c.err)
    ELSE IF CidVersion(c.cid) = 0 THEN Ok(KeyToTopic(IpnsPrefix \o CidKeyString(c.cid)))
    ELSE IF CidVersion(c.cid) = 1 THEN Ok(KeyToTopic(IpnsPrefix \o CidHash(c.cid)))
    ELSE Err("UnsupportedCIDVersion")

\* getIPNSKey with a switch whose default case falls into the CIDv1 output
getIPNSKey_DefaultV1(topic, cidVersion) ==
    IF Len(topic) < Len(RecordPrefix) THEN Panic("slice bounds out of range")
    ELSE LET decoded == Base64RawURLDecode(SliceFrom(topic, Len(RecordPrefix))) IN
    IF ~decoded.ok THEN Err("CorruptInputError")
    ELSE IF Len(decoded.bytes) < Len(IpnsPrefix) THEN Panic("slice bounds out of range")
    ELSE LET c == CidCast(SliceFrom(decoded.bytes, Len(IpnsPrefix))) IN
    IF ~c.ok THEN Err(c.err)
    ELSE IF cidVersion = 0 THEN Ok(CidString(c.cid))
    ELSE Ok(CidString(NewCidV1(Libp2pKey, CidHash(c.cid))))

getIPNSKey(topic, cidVersion) ==
    IF Len(topic) < Len(RecordPrefix) THEN Panic("slice bounds out of range")
    ELSE LET decoded == Base64RawURLDecode(SliceFrom(topic, Len(RecordPrefix))) IN
    IF ~decoded.ok THEN Err("CorruptInputError")
    ELSE IF Len(decoded.bytes) < Len(IpnsPrefix) THEN Panic("slice bounds out of range")
    ELSE LET c == CidCast(SliceFrom(decoded.bytes, Len(IpnsPrefix))) IN
    IF ~c.ok THEN Err(c.err)
    ELSE IF cidVersion = 0 THEN Ok(CidString(c.cid))
    ELSE IF cidVersion = 1 THEN Ok(CidString(NewCidV1(Libp2pKey, CidHash(c.cid))))
    ELSE Err("UnsupportedCIDVersion")

(***************************************************************************)
(* Integers and time                                                       *)
(***************************************************************************)
\* width, in bits, of the integers that are 64 bits wide in the program
IntBits == 20

MaxInt64 == 2 ^ (IntBits - 1) - 1

\* uint64(x) of a signed x, and int64(u) of an unsigned u: the same bits
ToUint64(x) == ((x % (2 ^ IntBits)) + 2 ^ IntBits) % (2 ^ IntBits)

ToInt64(u) == IF u > MaxInt64 THEN u - 2 ^ IntBits ELSE u

\* A time.Time is [sec, nsec, utc]: seconds since the Unix epoch, the
\* nanoseconds within the second, and whether its location is UTC (time.Now
\* is in the local zone, a parsed "...Z" timestamp in UTC). A time.Duration
\* counts seconds here (nanoseconds in Go), so that hours fit IntBits bits.
Hour == 3600

TimeAdd(t, d) == [t EXCEPT !.sec = t.sec + d]

\* Time.Equal: the same instant, whatever the location
TimeEqual(t, u) == t.sec = u.sec /\ t.nsec = u.nsec

\* the civil date of a day count since 1970-01-01, and back
CivilFromDays(days) ==
    LET z   == days + 719468
        era == z \div 146097
        doe == z - era * 146097
        yoe == (doe - doe \div 1460 + doe \div 36524 - doe \div 146096) \div 365
        doy == doe - (365 * yoe + yoe \div 4 - yoe \div 100)
        mp  == (5 * doy + 2) \div 153
        m   == IF mp < 10 THEN mp + 3 ELSE mp - 9
    IN  [y |-> yoe + era * 400 + (IF m <= 2 THEN 1 ELSE 0),
         m |-> m,
         d |-> doy - (153 * mp + 2) \div 5 + 1]

DaysFromCivil(y, m, d) ==
    LET yy  == IF m <= 2 THEN y - 1 ELSE y
        era == yy \div 400
        yoe == yy - era * 400
        doy == (153 * (IF m > 2 THEN m - 3 ELSE m + 9) + 2) \div 5 + d - 1
        doe == yoe * 365 + yoe \div 4 - yoe \div 100 + doy
    IN  era * 146097 + doe - 719468

\* n in decimal, w digits wide (zero padded)
Digits(n, w) == [i \in 1..w |-> 48 + ((n \div (10 ^ (w - i))) % 10)]

\* n >= 0 in decimal, as short as it gets
Decimal(n) ==
    LET w == CHOOSE k \in 1..10 : n < 10 ^ k /\ (k = 1 \/ n >= 10 ^ (k - 1))
    IN  Digits(n, w)

IsDigits(s) == \A i \in 1..Len(s) : s[i] >= 48 /\ s[i] <= 57

\* the number a digit string spells (at most 9 digits)
NumberOf(s) ==
    LET p[i \in 0..Len(s)] == IF i = 0 THEN 0 ELSE p[i - 1] * 10 + (s[i] - 48)
    IN  p[Len(s)]

\* the fraction of a second as Go prints it with the layout .999999999:
\* nothing for 0, else the nine digits without their trailing zeros
Fraction(nsec) ==
    IF nsec = 0 THEN <<>>
    ELSE LET ds == Digits(nsec, 9)
             k  == CHOOSE j \in 1..9 : ds[j] # 48 /\ \A l \in (j + 1)..9 : ds[l] = 48
         IN  <<46>> \o SliceTo(ds, k)

\* date and time of day of t in UTC, joined by sep
DateTime(t, sep) ==
    LET c   == CivilFromDays(t.sec \div 86400)
        sod == t.sec % 86400
    IN  Digits(c.y, 4) \o <<45>> \o Digits(c.m, 2) \o <<45>> \o Digits(c.d, 2)
        \o <<sep>> \o Digits(sod \div 3600, 2) \o <<58>>
        \o Digits((sod % 3600) \div 60, 2) \o <<58>> \o Digits(sod % 60, 2)
        \o Fraction(t.nsec)

\* u.FormatRFC3339: t.UTC().Format(time.RFC3339Nano)
FormatRFC3339(t) == DateTime(t, 84) \o <<90>>

\* u.ParseRFC3339: time.Parse(time.RFC3339Nano, s), then UTC. (Of the zones
\* Go reads, the model reads "Z": others are an error here.)
ParseRFC3339(s) ==
    LET bad  == [ok |-> FALSE, t |-> [sec |-> 0, nsec |-> 0, utc |-> TRUE]]
        num(a, b) == NumberOf(SubSeq(s, a, b))
        frac == SubSeq(s, 21, Len(s) - 1)
    IN  IF Len(s) < 20 \/ s[Len(s)] # 90 THEN bad
        ELSE IF ~(/\ s[5] = 45 /\ s[8] = 45 /\ s[11] = 84 /\ s[14] = 58 /\ s[17] = 58
                  /\ IsDigits(SubSeq(s, 1, 4)) /\ IsDigits(SubSeq(s, 6, 7))
                  /\ IsDigits(SubSeq(s, 9, 10)) /\ IsDigits(SubSeq(s, 12, 13))
                  /\ IsDigits(SubSeq(s, 15, 16)) /\ IsDigits(SubSeq(s, 18, 19)))
             THEN bad
        ELSE IF Len(s) > 20 /\ ~(s[20] = 46 /\ Len(frac) \in 1..9 /\ IsDigits(frac))
             THEN bad
        ELSE IF ~(/\ num(1, 4) \in 1970..2037
                  /\ num(6, 7) \in 1..12
                  /\ num(9, 10) >= 1
                  /\ CivilFromDays(DaysFromCivil(num(1, 4), num(6, 7), num(9, 10)))
                         = [y |-> num(1, 4), m |-> num(6, 7), d |-> num(9, 10)]
                  /\ num(12, 13) < 24 /\ num(15, 16) < 60 /\ num(18, 19) < 60)
             THEN bad
        ELSE [ok |-> TRUE,
              t |-> [sec  |-> DaysFromCivil(num(1, 4), num(6, 7), num(9, 10)) * 86400
                              + num(12, 13) * 3600 + num(15, 16) * 60 + num(18, 19),
                     nsec |-> IF Len(s) > 20
                              THEN NumberOf(frac) * (10 ^ (9 - Len(frac))) ELSE 0,
                     utc  |-> TRUE]]

\* Time.String, of a time in UTC: "2006-01-02 15:04:05.999999999 +0000 UTC"
TimeString(t) == DateTime(t, 32) \o <<32, 43, 48, 48, 48, 48, 32, 85, 84, 67>>

\* Duration.String, of a whole number of seconds: "-1s", "0s", "10m0s", "1h0m0s"
DurationString(d) ==
    LET a == IF d < 0 THEN -d ELSE d
    IN  (IF d < 0 THEN <<45>> ELSE <<>>)
        \o (IF a >= 3600 THEN Decimal(a \div 3600) \o <<104>> ELSE <<>>)
        \o (IF a >= 60 THEN Decimal((a % 3600) \div 60) \o <<109>> ELSE <<>>)
        \o Decimal(a % 60) \o <<115>>

(***************************************************************************)
(* Keys (go-libp2p-core/crypto, peer)                                      *)
(***************************************************************************)
\* crypto_pb.KeyType: RSA = 0, Ed25519 = 1, Secp256k1 = 2, ECDSA = 3.
\* A key is [type, data], data its raw bytes. The raw private bytes of RSA
\* and ECDSA keys (DER) are cut down to 8 bytes; public keys have their real
\* lengths: 32 (ed25519), 33 (secp256k1), 91 (ecdsa), 294 (rsa-2048).
PubLen(type) ==
    CASE type = 1 -> 32 [] type = 2 -> 33 [] type = 3 -> 91 [] OTHER -> 294

PrivLen(type) == CASE type = 1 -> 64 [] type = 2 -> 32 [] OTHER -> 8

\* PrivKey.GetPublic: a stand-in for the key derivation, the public bytes a
\* fixed function of the private ones
GetPublic(sk) ==
    [type |-> sk.type,
     data |-> [j \in 1..PubLen(sk.type) |->
                  (sk.data[((j - 1) % Len(sk.data)) + 1] + 3 * j) % 256]]

\* crypto.MarshalPrivateKey, crypto.MarshalPublicKey: the protobuf message
\* {Type = 1: varint, Data = 2: bytes}
MarshalKey(k) == <<8, k.type, 18>> \o PutUvarint(Len(k.data)) \o k.data

\* crypto.UnmarshalPrivateKey (messages in the canonical layout above)
UnmarshalPrivateKey(b) ==
    LET bad(e) == [ok |-> FALSE, key |-> [type |-> 0, data |-> <<>>], err |-> e]
        l      == Uvarint(SliceFrom(b, 3))
    IN  IF Len(b) < 4 \/ b[1] # 8 \/ b[3] # 18 \/ l.n <= 0 THEN bad("ProtoUnmarshalError")
        ELSE IF Len(b) - 3 - l.n # l.val THEN bad("ProtoUnmarshalError")
        ELSE IF b[2] \notin 0..3 THEN bad("ErrBadKeyType")
        ELSE IF l.val # PrivLen(b[2]) THEN bad("BadKeyData")
        ELSE [ok |-> TRUE, key |-> [type |-> b[2], data |-> SliceFrom(b, 3 + l.n)],
              err |-> ""]

RECURSIVE SumBytes(_, _)
SumBytes(b, i) == IF i > Len(b) THEN 0 ELSE (b[i] + SumBytes(b, i + 8)) % 65536

\* A stand-in for SHA-256: 32 bytes that depend on the data.
Sha256(data) ==
    [j \in 1..32 |-> (SumBytes(data, 1 + (j % 8)) + Len(data) + 7 * j) % 256]

\* A stand-in for PrivKey.Sign: bytes that depend on the key and the message.
Sign(sk, msg) == <<sk.type, sk.data[1]>> \o SliceTo(Sha256(sk.data \o msg), 6)

\* peer.MaxInlineKeyLength
MaxInlineKeyLength == 42

\* peer.IDFromPublicKey: the identity multihash of the serialized public key
\* when that is at most 42 bytes long, its sha2-256 multihash otherwise
IDFromPublicKey(pk) ==
    LET b == MarshalKey(pk)
    IN  IF Len(b) <= MaxInlineKeyLength THEN IdentityMultihash(b)
        ELSE <<18, 32>> \o Sha256(b)

\* peer.ID.ExtractPublicKey: only an identity multihash holds the key
\* ("ErrNoPublicKey" otherwise; "" when the key is extracted)
ExtractPublicKeyErr(id) == IF Uvarint(id).val # 0 THEN "ErrNoPublicKey" ELSE ""

\* peer.ToCid
PeerToCid(id) == NewCidV1(Libp2pKey, id)

(***************************************************************************)
(* IPNS records (go-ipns and its protobuf message IpnsEntry)               *)
(***************************************************************************)
\* An optional field is [has, v]; None for an absent bytes field, NoInt for
\* an absent (nil) number.
None == [has |-> FALSE, v |-> <<>>]

NoInt == [has |-> FALSE, v |-> 0]

Some(x) == [has |-> TRUE, v |-> x]

\* new(pb.IpnsEntry)
EmptyEntry ==
    [Value |-> None, Signature |-> None, ValidityType |-> NoInt, Validity |-> None,
     Sequence |-> NoInt, Ttl |-> NoInt, PubKey |-> None]

\* a length-delimited field and a varint field on the wire
BytesField(num, f) ==
    IF f.has THEN <<num * 8 + 2>> \o PutUvarint(Len(f.v)) \o f.v ELSE <<>>

VarintField(num, f) == IF f.has THEN <<num * 8>> \o PutUvarint(f.v) ELSE <<>>

\* IpnsEntry.Marshal: the fields that are set, in field order; value (1) and
\* signature (2) are required
Marshal(e) ==
    IF ~e.Value.has \/ ~e.Signature.has
    THEN [ok |-> FALSE, bytes |-> <<>>, err |-> "RequiredNotSet"]
    ELSE [ok |-> TRUE, err |-> "",
          bytes |-> BytesField(1, e.Value) \o BytesField(2, e.Signature)
                    \o VarintField(3, e.ValidityType) \o BytesField(4, e.Validity)
                    \o VarintField(5, e.Sequence) \o VarintField(6, e.Ttl)
                    \o BytesField(7, e.PubKey)]

FieldName(num) ==
    CASE num = 1 -> "Value" [] num = 2 -> "Signature" [] num = 3 -> "ValidityType"
      [] num = 4 -> "Validity" [] num = 5 -> "Sequence" [] num = 6 -> "Ttl"
      [] OTHER -> "PubKey"

\* The loop of IpnsEntry.Unmarshal from byte i on: each known field is
\* stored (a repeated one replaces the earlier), unknown fields of wire
\* type 0, 1, 2 or 5 are skipped, anything else is an error.
RECURSIVE UnmarshalFrom(_, _, _)
UnmarshalFrom(data, i, e) ==
    LET bad(x) == [ok |-> FALSE, rec |-> EmptyEntry, err |-> x]
        \* the field whose tag is tag and whose length or number, read at
        \* byte at, is n
        field(tag, at, n) ==
            LET num  == tag.val \div 8
                wire == tag.val % 8
            IN  IF wire \in {3, 4, 6, 7} \/ num = 0 THEN bad("IllegalTag")
                ELSE IF num \in {1, 2, 4, 7} /\ wire # 2 THEN bad("WrongWireType")
                ELSE IF num \in {3, 5, 6} /\ wire # 0 THEN bad("WrongWireType")
                ELSE IF wire = 0
                     THEN IF n.n = 0 THEN bad("ErrUnexpectedEOF")
                          ELSE IF n.n < 0 THEN bad("ErrIntOverflow")
                          ELSE UnmarshalFrom(data, at + n.n,
                                   IF num \in {3, 5, 6}
                                   THEN [e EXCEPT ![FieldName(num)] =
                                            Some(n.val % (2 ^ IntBits))]
                                   ELSE e)
                ELSE IF wire = 2
                     THEN IF n.n = 0 THEN bad("ErrUnexpectedEOF")
                          ELSE IF n.n < 0 THEN bad("ErrIntOverflow")
                          ELSE IF at + n.n + n.val - 1 > Len(data)
                               THEN bad("ErrUnexpectedEOF")
                          ELSE UnmarshalFrom(data, at + n.n + n.val,
                                   IF num \in {1, 2, 4, 7}
                                   THEN [e EXCEPT ![FieldName(num)] =
                                            Some(SubSeq(data, at + n.n,
                                                        at + n.n + n.val - 1))]
                                   ELSE e)
                ELSE LET w == IF wire = 1 THEN 8 ELSE 4 IN
                     IF at + w - 1 > Len(data) THEN bad("ErrUnexpectedEOF")
                     ELSE UnmarshalFrom(data, at + w, e)
    IN  IF i > Len(data)
        THEN IF e.Value.has /\ e.Signature.has THEN [ok |-> TRUE, rec |-> e, err |-> ""]
             ELSE bad("RequiredNotSet")
        ELSE With(Uvarint(SliceFrom(data, i - 1)), LAMBDA tag :
                 IF tag.n = 0 THEN bad("ErrUnexpectedEOF")
                 ELSE IF tag.n < 0 THEN bad("ErrIntOverflow")
                 ELSE With(Uvarint(SliceFrom(data, i + tag.n - 1)), LAMBDA n :
                          field(tag, i + tag.n, n)))

\* IpnsEntry.Unmarshal
Unmarshal(data) == UnmarshalFrom(data, 1, EmptyEntry)

\* ipnsEntryDataForSig: value, validity and the validity type's name "EOL"
EntryDataForSig(e) == e.Value.v \o e.Validity.v \o <<69, 79, 76>>

\* ipns.Create
Create(sk, val, seq, eol, ttl) ==
    LET e == [EmptyEntry EXCEPT !.Value = Some(val),
                                !.ValidityType = Some(0),
                                !.Sequence = Some(seq),
                                !.Validity = Some(FormatRFC3339(eol)),
                                !.Ttl = Some(ToUint64(ttl))]
    IN  [e EXCEPT !.Signature = Some(Sign(sk, EntryDataForSig(e)))]

\* ipns.EmbedPublicKey with the key always put into the record
EmbedPublicKey_Always(pk, entry) == [entry EXCEPT !.PubKey = Some(MarshalKey(pk))]

\* ipns.EmbedPublicKey: the public key goes into the record only when the
\* peer id made of it does not hold it
EmbedPublicKey(pk, entry) ==
    IF ExtractPublicKeyErr(IDFromPublicKey(pk)) # "ErrNoPublicKey" THEN entry
    ELSE [entry EXCEPT !.PubKey = Some(MarshalKey(pk))]

\* ipns.GetEOL
GetEOL(e) ==
    IF e.ValidityType.has /\ e.ValidityType.v # 0
    THEN [ok |-> FALSE, t |-> ParseRFC3339(<<>>).t, err |-> "ErrUnrecognizedValidity"]
    ELSE LET p == ParseRFC3339(e.Validity.v)
         IN  [ok |-> p.ok, t |-> p.t, err |-> IF p.ok THEN "" ELSE "TimeParseError"]

\* multibase.EncoderByName: the prefix of a base the model knows, 0 for any
\* other name (an error)
EncoderByName(name) ==
    CASE name = "base32" -> 98 [] name = "base16" -> 102
      [] name = "base58btc" -> 122 [] name = "base64url" -> 117 [] OTHER -> 0

(***************************************************************************)
(* Inputs of the identifier commands                                       *)
(***************************************************************************)
\* how many different 32-byte digests the inputs are built from
NumDigests == 2

\* The sha2-256 digest inside the README's example key
\* QmXMuMWm6k3CD3sHV824H2BT1ugcHKF6Tm13ZVM8RhGTB7.
ReadmeDigest ==
    <<134, 11, 82, 126, 209, 207, 31, 106, 45, 106, 102, 86, 124, 35, 151, 224,
      240, 22, 13, 223, 164, 231, 234, 211, 215, 178, 135, 67, 151, 115, 211,
      138>>

\* digest 1 is the README's, the others are variations of it
Digest(i) == [j \in 1..32 |-> (ReadmeDigest[j] + (i - 1) * (j + 40)) % 256]

Sha256Multihash(i) == <<18, 32>> \o Digest(i)

\* the identity multihash of a serialized ed25519 public key (36 bytes)
InlineMultihash(i) == IdentityMultihash(<<8, 1, 18, 32>> \o Digest(i))

MultihashInputs ==
    {Sha256Multihash(i) : i \in 1..NumDigests} \cup {InlineMultihash(i) : i \in 1..NumDigests}

\* strings cid.Decode reads as a CIDv0: base58 of a sha2-256 multihash, or
\* multibase text of those 34 bytes
V0KeyInputs ==
    {B58Encode(Sha256Multihash(i)) : i \in 1..NumDigests}
    \cup {MultibaseEncode(122, Sha256Multihash(1))}

\* CIDv1 strings: libp2p-key (0x72) or dag-pb (0x70) codec, base32, base58btc
\* or base16 text
V1KeyInputs ==
    {MultibaseEncode(p, NewCidV1(codec, h)) :
        p \in {98, 122, 102}, codec \in {Libp2pKey, 112}, h \in MultihashInputs}

\* strings cid.Decode rejects: too short, "Qm" + 44 characters that are not
\* base58, an unknown multibase prefix, a bad base32 digit, a bare base58 peer
\* id, a CID of version 2
BadKeyInputs ==
    { <<>>, <<81>>, <<81, 109>> \o [i \in 1..44 |-> 48], <<120, 120, 120>>,
      <<98, 49, 49>>, B58Encode(InlineMultihash(1)),
      MultibaseEncode(98, <<2, Libp2pKey>> \o Sha256Multihash(1)) }

KeyInputs == V0KeyInputs \cup V1KeyInputs \cup BadKeyInputs

\* topics typed on the command line: well formed ones, and ones that break
\* each step of getIPNSKey
TopicInputs ==
    {KeyToTopic(IpnsPrefix \o h) : h \in MultihashInputs}
    \cup { <<>>,                                                  \* empty
           <<47, 114, 101, 99>>,                                  \* "/rec"
           <<88, 88, 88, 88, 88, 88, 88, 88>>
               \o Base64RawURLEncode(IpnsPrefix \o Sha256Multihash(1)),
           RecordPrefix,                                          \* no payload
           RecordPrefix \o <<33, 33, 33, 33>>,                    \* "!!!!"
           KeyToTopic(<<47, 105, 112, 110>>),                     \* "/ipn"
           KeyToTopic(<<47, 105, 112, 102, 115, 47>> \o Sha256Multihash(1)),
           KeyToTopic(<<47, 105, 112, 110, 115>> \o Sha256Multihash(1)),
           KeyToTopic(IpnsPrefix),
           KeyToTopic(IpnsPrefix \o NewCidV1(Libp2pKey, Sha256Multihash(1))) }

\* the largest value given to --format
MaxVersion == 2

VersionInputs == -1..MaxVersion

(***************************************************************************)
(* The standard streams of the process                                     *)
(***************************************************************************)
VARIABLE
    broken    \* the streams ("stdout", "stderr") on which every write fails

\* what a write of b puts on a stream: nothing when the stream is broken
Written(stream, b) == IF stream \in broken THEN <<>> ELSE b

\* the error of a write to a stream ("" for none)
WriteErr(stream) == IF stream \in broken THEN "EBADF" ELSE ""

(***************************************************************************)
(* createIPNSID of main.go                                                 *)
(***************************************************************************)
\* crypto.MinRsaKeyBits
MinRsaKeyBits == 2048

\* crypto.Generate...Key(rand.Reader): the private key of a type that the
\* random bytes seed give
GenerateKey(type, seed) ==
    [type |-> type,
     data |-> [j \in 1..PrivLen(type) |-> (11 * j + 50 * type + 23 * seed) % 256]]

\* what createIPNSID did: its return value and the bytes it wrote to stdout
\* and to stderr
IdDone(r, out, errOut) == [ret |-> r, out |-> out, errOut |-> errOut]

\* createIPNSID (main.go:370-432); seed is what rand.Reader yields. The
\* error of the last write to stdout is dropped (main.go:427, 430-431).
createIPNSID(keyType, keyLen, outputBase, seed) ==
    LET type   == CASE keyType = "rsa" -> 0 [] keyType = "ed25519" -> 1
                    [] keyType = "secp256k1" -> 2 [] keyType = "ecdsa" -> 3
                    [] OTHER -> -1
        rsaLen == IF keyLen <= 0 THEN 2048 ELSE keyLen
    IN  IF type = -1 THEN IdDone(Fail(Err("ErrBadKeyType")), <<>>, <<>>)
        ELSE IF type = 0 /\ rsaLen < MinRsaKeyBits
        THEN IdDone(Fail(Err("ErrRsaKeyTooSmall")), <<>>, <<>>)
        ELSE With(GenerateKey(type, seed), LAMBDA priv :
             With(<<105, 100, 101, 110, 116, 102, 105, 101, 114, 58, 32>>
                  \o CidString(PeerToCid(IDFromPublicKey(GetPublic(priv)))) \o <<10>>,
                  LAMBDA line :
                 IF WriteErr("stderr") # ""
                 THEN IdDone(Fail(Err(WriteErr("stderr"))), <<>>, <<>>)
                 ELSE IF outputBase # ""
                      THEN IF EncoderByName(outputBase) = 0
                           THEN IdDone(Fail(Err("ErrUnsupportedEncoding")), <<>>, line)
                           ELSE IdDone(Nil,
                                       Written("stdout",
                                               MultibaseEncode(EncoderByName(outputBase),
                                                               MarshalKey(priv))),
                                       line)
                 ELSE IdDone(Nil, Written("stdout", MarshalKey(priv)), line)))

(***************************************************************************)
(* The record functions of main.go                                         *)
(***************************************************************************)
\* the files of the working directory: path -> contents (set below)
ReadFile(files, path) ==
    IF path \in DOMAIN files THEN [ok |-> TRUE, bytes |-> files[path], err |-> ""]
    ELSE [ok |-> FALSE, bytes |-> <<>>, err |-> "ENOENT"]

\* what a record function did: its return value, the bytes it wrote to
\* stdout, and the record it built or decoded
Done(r, out, rec) == [ret |-> r, out |-> out, rec |-> rec]

\* createIPNSRecord (main.go:434-460)
createIPNSRecord(seqno, ttl, eol, value, privKey, outputBase) ==
    With(EmbedPublicKey(GetPublic(privKey),
                        Create(privKey, value, ToUint64(seqno), eol, ttl)), LAMBDA rec :
    With(Marshal(rec), LAMBDA m :
        IF ~m.ok THEN Done(Fail(Err(m.err)), <<>>, rec)
        ELSE IF outputBase # ""
             THEN IF EncoderByName(outputBase) = 0
                  THEN Done(Fail(Err("ErrUnsupportedEncoding")), <<>>, rec)
                  ELSE Done(Nil,
                            Written("stdout",
                                    Println(MultibaseEncode(EncoderByName(outputBase),
                                                            m.bytes))), rec)
        ELSE IF WriteErr("stdout") # "" THEN Done(Fail(Err(WriteErr("stdout"))), <<>>, rec)
        ELSE Done(Nil, m.bytes, rec)))

\* the eol of the record with --lifetime left out of the account
ResolveEOL_NoLifetime(eol, lifetime, now) ==
    IF ~eol.has THEN TimeAdd(now, Hour * 24) ELSE eol.v

\* the eol of the record (main.go:126-132): now + 24h when neither --eol nor
\* --lifetime is set, now + lifetime when --lifetime is, else the --eol given
ResolveEOL(eol, lifetime, now) ==
    IF ~lifetime.has /\ ~eol.has THEN TimeAdd(now, Hour * 24)
    ELSE IF lifetime.has THEN TimeAdd(now, lifetime.v)
    ELSE eol.v

\* the key loaded from the file whenever --key-file is given, whatever
\* --key-encoded is
LoadKey_FileFirst(files, keyFile, keyEncoded) ==
    LET bad(e) == [ok |-> FALSE, key |-> [type |-> 0, data |-> <<>>], err |-> e]
    IN  IF keyFile # <<>>
        THEN With(ReadFile(files, keyFile), LAMBDA f :
                 IF ~f.ok THEN bad(f.err) ELSE UnmarshalPrivateKey(f.bytes))
        ELSE IF keyEncoded = <<>>
        THEN bad("no key specified, specify a key file or encoded key")
        ELSE With(MultibaseDecode(keyEncoded), LAMBDA d :
                 IF ~d.ok THEN bad("MultibaseDecodeError")
                 ELSE UnmarshalPrivateKey(d.bytes))

\* the key named by --key-file or --key-encoded (main.go:138-163)
LoadKey(files, keyFile, keyEncoded) ==
    LET bad(e) == [ok |-> FALSE, key |-> [type |-> 0, data |-> <<>>], err |-> e]
    IN  IF keyFile # <<>> /\ keyEncoded # <<>>
        THEN bad("cannot pass a key file and encoded key")
        ELSE IF keyFile = <<>> /\ keyEncoded = <<>>
        THEN bad("no key specified, specify a key file or encoded key")
        ELSE IF keyFile # <<>>
        THEN With(ReadFile(files, keyFile), LAMBDA f :
                 IF ~f.ok THEN bad(f.err) ELSE UnmarshalPrivateKey(f.bytes))
        ELSE With(MultibaseDecode(keyEncoded), LAMBDA d :
                 IF ~d.ok THEN bad("MultibaseDecodeError")
                 ELSE UnmarshalPrivateKey(d.bytes))

\* the Action of "create record" (main.go:115-166); a holds the flags, now
\* is what time.Now returns
CreateRecordAction(files, a, now) ==
    IF a.lifetime.has /\ a.eol.has
    THEN Done(Fail(Err("cannot define lifetime and eol on a record, choose one")),
              <<>>, EmptyEntry)
    ELSE With(LoadKey(files, a.keyFile, a.keyEncoded), LAMBDA k :
             IF ~k.ok THEN Done(Fail(Err(k.err)), <<>>, EmptyEntry)
             ELSE With(ResolveEOL(a.eol, a.lifetime, now), LAMBDA t :
                      createIPNSRecord(a.seqno, a.ttl, t, a.value, k.key, a.outputBase)))

\* the text parseIPNSRecord prints
RecordText(value, seq, eol, ttl, pubKeyString) ==
    <<10, 123, 10, 32, 32, 32, 32, 34, 86, 97, 108, 117, 101, 34, 58, 32, 34>>
    \o value
    \o <<34, 44, 10, 32, 32, 32, 32, 34, 83, 101, 113, 117, 101, 110, 99, 101, 78,
         117, 109, 98, 101, 114, 34, 32, 58, 32>>
    \o Decimal(seq)
    \o <<44, 10, 32, 32, 32, 32, 34, 69, 79, 76, 34, 32, 58, 32, 34>>
    \o TimeString(eol)
    \o <<34, 44, 10, 32, 32, 32, 32, 34, 84, 84, 76, 34, 32, 58, 32, 34>>
    \o DurationString(ttl)
    \o <<34, 44, 10, 32, 32, 32, 32, 34, 80, 117, 98, 75, 101, 121, 34, 32, 58, 32, 34>>
    \o pubKeyString
    \o <<34, 10, 125, 10, 10>>

\* parseIPNSRecord, were it to check the signature as ipns.Validate does:
\* a record no known key signed is refused
parseIPNSRecord_Validating(data) ==
    With(Unmarshal(data), LAMBDA u :
        IF ~u.ok THEN Done(Fail(Err(u.err)), <<>>, EmptyEntry)
        ELSE IF \A type \in 0..3 :
                    u.rec.Signature.v
                        # Sign([type |-> type,
                                data |-> [j \in 1..PrivLen(type) |->
                                             (11 * j + 50 * type) % 256]],
                               EntryDataForSig(u.rec))
             THEN Done(Fail(Err("ErrSignature")), <<>>, u.rec)
        ELSE With(GetEOL(u.rec), LAMBDA eol :
            LET ttl == IF u.rec.Ttl.has THEN ToInt64(u.rec.Ttl.v) ELSE 0
                pubKeyString == IF Len(u.rec.PubKey.v) > 0
                                THEN MultibaseEncode(102, u.rec.PubKey.v) ELSE <<>>
            IN  IF ~eol.ok THEN Done(Fail(Err(eol.err)), <<>>, u.rec)
                ELSE IF ~u.rec.Sequence.has
                     THEN Done(Fail(Panic("nil pointer dereference")), <<>>, u.rec)
                ELSE Done(Nil,
                          Written("stdout",
                                  RecordText(u.rec.Value.v, u.rec.Sequence.v, eol.t, ttl,
                                             pubKeyString)), u.rec)))

\* parseIPNSRecord (main.go:462-499): *rec.Sequence panics on a nil pointer
parseIPNSRecord(data) ==
    With(Unmarshal(data), LAMBDA u :
        IF ~u.ok THEN Done(Fail(Err(u.err)), <<>>, EmptyEntry)
        ELSE With(GetEOL(u.rec), LAMBDA eol :
            LET ttl == IF u.rec.Ttl.has THEN ToInt64(u.rec.Ttl.v) ELSE 0
                pubKeyString == IF Len(u.rec.PubKey.v) > 0
                                THEN MultibaseEncode(102, u.rec.PubKey.v) ELSE <<>>
            IN  IF ~eol.ok THEN Done(Fail(Err(eol.err)), <<>>, u.rec)
                ELSE IF ~u.rec.Sequence.has
                     THEN Done(Fail(Panic("nil pointer dereference")), <<>>, u.rec)
                ELSE Done(Nil,
                          Written("stdout",
                                  RecordText(u.rec.Value.v, u.rec.Sequence.v, eol.t, ttl,
                                             pubKeyString)), u.rec)))

\* the Action of "parse record" (main.go:185-208)
ParseRecordAction(files, inputType, recordInput) ==
    IF inputType = "bytes" THEN parseIPNSRecord(recordInput)
    ELSE IF inputType = "multibase"
         THEN With(MultibaseDecode(recordInput), LAMBDA d :
                  IF ~d.ok THEN Done(Fail(Err("MultibaseDecodeError")), <<>>, EmptyEntry)
                  ELSE parseIPNSRecord(d.bytes))
    ELSE IF inputType = "path"
         THEN With(ReadFile(files, recordInput), LAMBDA f :
                  IF ~f.ok THEN Done(Fail(Err(f.err)), <<>>, EmptyEntry)
                  ELSE parseIPNSRecord(f.bytes))
    ELSE Done(Fail(Err("must pass either a record file or encoded record to parse")),
              <<>>, EmptyEntry)

(***************************************************************************)
(* Inputs of the record commands                                           *)
(***************************************************************************)
\* one private key of each type
PrivKeyOf(type) ==
    [type |-> type, data |-> [j \in 1..PrivLen(type) |-> (11 * j + 50 * type) % 256]]

\* "ed25519.key", "rsa.key", "junk.key", "record.bin", "missing.key"
EdKeyPath == <<101, 100, 50, 53, 53, 49, 57, 46, 107, 101, 121>>

RsaKeyPath == <<114, 115, 97, 46, 107, 101, 121>>

JunkKeyPath == <<106, 117, 110, 107, 46, 107, 101, 121>>

RecordPath == <<114, 101, 99, 111, 114, 100, 46, 98, 105, 110>>

MissingPath == <<109, 105, 115, 115, 105, 110, 103, 46, 107, 101, 121>>

\* a time.Now of the run: 2026-11-04T03:00:00.12 local time
Now0 == [sec |-> 1793761200, nsec |-> 120000000, utc |-> FALSE]

\* a record made by hand: every field set, then one changed
HandMade ==
    Create(PrivKeyOf(1), <<47, 105, 112, 102, 115, 47, 98, 97, 102, 107, 113, 97, 97, 97>>,
           7, TimeAdd(Now0, Hour), 60)

NoSequenceRecord == Marshal([HandMade EXCEPT !.Sequence = NoInt]).bytes

Files ==
    (EdKeyPath :> MarshalKey(PrivKeyOf(1))) @@ (RsaKeyPath :> MarshalKey(PrivKeyOf(0)))
    @@ (JunkKeyPath :> <<8, 9, 18, 1, 0>>) @@ (RecordPath :> NoSequenceRecord)

KeyFileInputs == {<<>>, EdKeyPath, RsaKeyPath, JunkKeyPath, MissingPath}

KeyEncodedInputs ==
    { <<>>, MultibaseEncode(102, MarshalKey(PrivKeyOf(2))),
      MultibaseEncode(117, MarshalKey(PrivKeyOf(3))), <<33, 33>> }

\* the largest --seqno tried, below the largest there is
MaxSeqno == 1

SeqnoInputs == (-1..MaxSeqno) \cup {MaxInt64}

TtlInputs == {0, 60, -1}

\* --eol 2026-11-05T00:00:00, or not set
NoTime == [has |-> FALSE, v |-> [sec |-> 0, nsec |-> 0, utc |-> TRUE]]

EolInputs == {NoTime, Some([sec |-> 1793836800, nsec |-> 0, utc |-> TRUE])}

\* --lifetime 1h, --lifetime -10m, or not set
LifetimeInputs == {NoInt, Some(Hour), Some(-600)}

\* the default --value "/ipfs/bafkqaaa", and an empty one
ValueInputs == {<<47, 105, 112, 102, 115, 47, 98, 97, 102, 107, 113, 97, 97, 97>>, <<>>}

OutputBaseInputs == {"", "base32", "nope"}

\* how many different readings of the clock the runs see
NumClocks == 2

NowInputs == {TimeAdd(Now0, 7 * (i - 1)) : i \in 1..NumClocks}

\* the flags when none is given but --key-file (main.go:70-113)
DefaultFlags ==
    [seqno |-> 0, ttl |-> 0, eol |-> NoTime, lifetime |-> NoInt,
     value |-> <<47, 105, 112, 102, 115, 47, 98, 97, 102, 107, 113, 97, 97, 97>>,
     keyFile |-> EdKeyPath, keyEncoded |-> <<>>, outputBase |-> ""]

\* the command lines tried: every way to name a key and an end of life, and
\* every other flag with the ed25519 key
CreateInputs ==
    { [DefaultFlags EXCEPT !.keyFile = kf, !.keyEncoded = ke, !.eol = e, !.lifetime = l] :
          kf \in KeyFileInputs, ke \in KeyEncodedInputs, e \in EolInputs,
          l \in LifetimeInputs }
    \cup
    { [DefaultFlags EXCEPT !.seqno = n, !.ttl = d, !.value = val, !.outputBase = ob] :
          n \in SeqnoInputs, d \in TtlInputs, val \in ValueInputs,
          ob \in OutputBaseInputs }

\* records typed on the command line: bytes, multibase text, or a path
RecordInputs ==
    { <<>>, <<255>>, RecordPath, MissingPath,
      NoSequenceRecord,
      Marshal([HandMade EXCEPT !.ValidityType = NoInt]).bytes,
      Marshal([HandMade EXCEPT !.ValidityType = NoInt, !.Sequence = NoInt]).bytes,
      MultibaseEncode(98, NoSequenceRecord),
      Marshal([HandMade EXCEPT !.Sequence = Some(7)]).bytes,
      Marshal([HandMade EXCEPT !.Ttl = NoInt]).bytes,
      Marshal([HandMade EXCEPT !.ValidityType = Some(1)]).bytes,
      Marshal([HandMade EXCEPT !.Validity = None]).bytes,
      Marshal([HandMade EXCEPT !.PubKey = Some(<<8, 1, 18, 1, 5>>)]).bytes,
      SliceTo(NoSequenceRecord, 9),
      NoSequenceRecord \o <<72, 5>> }

InputTypeInputs == {"bytes", "multibase", "path", "file"}

(***************************************************************************)
(* Inputs of create id                                                     *)
(***************************************************************************)
TypeInputs == {"ed25519", "rsa", "secp256k1", "ecdsa", "dsa"}

\* --size: the default (-1), too few bits for RSA, and enough
SizeInputs == {-1, 1024, 2048}

\* how many different yields of the random source the runs see
NumSeeds == 2

\* signatures no key of the runs made
SignatureInputs == {<<1, 2, 3>>, <<255>>}

(***************************************************************************)
(* The program: one invocation of a subcommand per step                    *)
(***************************************************************************)
VARIABLES
    cmd,      \* the subcommand that ran last ("none" at the shell prompt)
    args,     \* its flags and arguments
    fed,      \* the earlier invocation whose output it was given, if any
    ret,      \* what its Action returned: nil, an error, or a panic
    stdout,   \* the bytes it wrote to standard output
    stderr,   \* the bytes it wrote itself to standard error
    rec       \* the IpnsEntry in its memory (the local rec of main.go)

vars == <<cmd, args, fed, ret, stdout, stderr, rec, broken>>

\* the ways the shell sets up the streams of a command: both fine, stdout
\* on a full device or closed, stderr closed
BrokenInputs == {{}, {"stdout"}, {"stderr"}}

NoFeed == [cmd |-> "none"]

Init ==
    /\ cmd = "none"
    /\ args = [none |-> TRUE]
    /\ fed = NoFeed
    /\ ret = Nil
    /\ stdout = <<>>
    /\ stderr = <<>>
    /\ rec = EmptyEntry
    /\ broken \in BrokenInputs

\* pubsub get-topic --key k (main.go:272-279)
GetTopic(k) ==
    \E r \in {getPubSubTopic(k)} :
    /\ cmd' = "get-topic"
    /\ args' = [key |-> k]
    /\ fed' = NoFeed
    /\ ret' = IF r.kind = "ok" THEN Nil ELSE Fail(r)
    /\ stdout' = IF r.kind = "ok" THEN Written("stdout", Println(r.val)) ELSE <<>>
    /\ stderr' = <<>>
    /\ rec' = EmptyEntry
    /\ UNCHANGED broken

\* pubsub get-key --topic t --format v (main.go:302-309)
GetKey(t, v, feed) ==
    \E r \in {getIPNSKey(t, v)} :
    /\ cmd' = "get-key"
    /\ args' = [topic |-> t, format |-> v]
    /\ fed' = feed
    /\ ret' = IF r.kind = "ok" THEN Nil ELSE Fail(r)
    /\ stdout' = IF r.kind = "ok" THEN Written("stdout", Println(r.val)) ELSE <<>>
    /\ stderr' = <<>>
    /\ rec' = EmptyEntry
    /\ UNCHANGED broken

\* create record with the flags a, started at time now (main.go:115-166)
CreateRecord(a, now) ==
    \E r \in {CreateRecordAction(Files, a, now)} :
    /\ cmd' = "create-record"
    /\ args' = [flags |-> a, now |-> now]
    /\ fed' = NoFeed
    /\ ret' = r.ret
    /\ stdout' = r.out
    /\ stderr' = <<>>
    /\ rec' = r.rec
    /\ UNCHANGED broken

\* parse record --input-type ty input (main.go:185-208)
ParseRecord(files, ty, input, feed) ==
    \E r \in {ParseRecordAction(files, ty, input)} :
    /\ cmd' = "parse-record"
    /\ args' = [inputType |-> ty, record |-> input]
    /\ fed' = feed
    /\ ret' = r.ret
    /\ stdout' = r.out
    /\ stderr' = <<>>
    /\ rec' = r.rec
    /\ UNCHANGED broken

\* create id --type ty --size size --output-base ob (main.go:61-63), the
\* random source yielding seed
CreateId(ty, size, ob, seed) ==
    \E r \in {createIPNSID(ty, size, ob, seed)} :
    /\ cmd' = "create-id"
    /\ args' = [type |-> ty, size |-> size, outputBase |-> ob, seed |-> seed]
    /\ fed' = NoFeed
    /\ ret' = r.ret
    /\ stdout' = r.out
    /\ stderr' = r.errOut
    /\ rec' = EmptyEntry
    /\ UNCHANGED broken

\* the line a command printed, without its newline
Line(out) == SliceTo(out, Len(out) - 1)

\* A command starts from the shell prompt; its process ends before the next.
AtPrompt == cmd = "none"

GetTopicStep == AtPrompt /\ \E k \in KeyInputs : GetTopic(k)

GetKeyStep ==
    AtPrompt /\ \E t \in TopicInputs, v \in VersionInputs : GetKey(t, v, NoFeed)

\* get-key given the topic the last get-topic printed
GetKeyOfTopicStep ==
    /\ cmd = "get-topic"
    /\ ret.kind = "nil"
    /\ "stdout" \notin broken
    /\ \E v \in VersionInputs, t \in {Line(stdout)} :
           GetKey(t, v, [cmd |-> "get-topic", key |-> args.key])

CreateIdStep ==
    AtPrompt /\ \E ty \in TypeInputs, size \in SizeInputs, ob \in OutputBaseInputs,
                    seed \in 1..NumSeeds : CreateId(ty, size, ob, seed)

CreateRecordStep ==
    AtPrompt /\ \E a \in CreateInputs, now \in NowInputs : CreateRecord(a, now)

\* a command-line argument holds no zero byte
IsArgument(b) == \A i \in 1..Len(b) : b[i] # 0

ParseRecordStep ==
    AtPrompt /\ \E ty \in InputTypeInputs, input \in RecordInputs :
                    IsArgument(input) /\ ParseRecord(Files, ty, input, NoFeed)

\* parse record given what the last create record wrote: the file its
\* bytes were redirected to, or their multibase text when --output-base was
\* set
ParseCreatedStep ==
    /\ cmd = "create-record"
    /\ ret.kind = "nil"
    /\ "stdout" \notin broken
    /\ \E feed \in {[cmd |-> "create-record", flags |-> args.flags, now |-> args.now,
                        made |-> rec]} :
           IF args.flags.outputBase = ""
           THEN \E files \in {(RecordPath :> stdout) @@ Files} :
                    ParseRecord(files, "path", RecordPath, feed)
           ELSE \E input \in {Line(stdout)} : ParseRecord(Files, "multibase", input, feed)

\* parse record given the file create record wrote, after its signature
\* was replaced by another
ParseForgedStep ==
    /\ cmd = "create-record"
    /\ ret.kind = "nil"
    /\ "stdout" \notin broken
    /\ args.flags.outputBase = ""
    /\ \E sig \in SignatureInputs :
       \E forged \in {Marshal([rec EXCEPT !.Signature = Some(sig)]).bytes} :
           ParseRecord((RecordPath :> forged) @@ Files, "path", RecordPath,
                       [cmd |-> "create-record", flags |-> args.flags, now |-> args.now,
                        made |-> rec, signature |-> sig])

\* the process has ended (main.go:364-367) and its output is gone; the
\* shell sets up the streams of the next command
Exit ==
    /\ ~AtPrompt
    /\ cmd' = "none"
    /\ args' = [none |-> TRUE]
    /\ fed' = NoFeed
    /\ ret' = Nil
    /\ stdout' = <<>>
    /\ stderr' = <<>>
    /\ rec' = EmptyEntry
    /\ broken' \in BrokenInputs

Next ==
    \/ GetTopicStep
    \/ GetKeyStep
    \/ GetKeyOfTopicStep
    \/ CreateIdStep
    \/ CreateRecordStep
    \/ ParseRecordStep
    \/ ParseCreatedStep
    \/ ParseForgedStep
    \/ Exit

Spec == Init /\ [][Next]_vars

(***************************************************************************)
(* Claims about the identifier conversions                                 *)
(***************************************************************************)
\* the multihash an accepted identifier string carries
MultihashOf(k) == CidHash(CidDecode(k).cid)

\* the CID version an accepted identifier string has
VersionOf(k) == CidVersion(CidDecode(k).cid)

\* a get-key that was given the topic get-topic printed for key fed.key
RoundTripped == cmd = "get-key" /\ fed.cmd = "get-topic"

\* C1: topic/key round trip. Whenever get-topic accepted an identifier k and
\* its topic is converted back with the CID version of k, the conversion
\* succeeds and prints k itself.
C1_RoundTrip ==
    (RoundTripped /\ args.format = VersionOf(fed.key))
        => (ret.kind = "nil" /\ stdout = Println(fed.key))

\* C2: the topic depends on the multihash alone. Whenever get-topic succeeds
\* on an identifier, of either CID version and in any text encoding, it
\* prints "/record/" + base64rawurl("/ipns/" + the identifier's multihash).
C2_TopicOfMultihash ==
    (cmd = "get-topic" /\ ret.kind = "nil" /\ "stdout" \notin broken)
        => stdout = Println(RecordPrefix
                            \o Base64RawURLEncode(IpnsPrefix \o MultihashOf(args.key)))

\* C2 witness: a base58btc CIDv1 with the dag-pb codec got the very topic of
\* the README's CIDv0 key, whose multihash it carries.
C2_Witness ==
    /\ cmd = "get-topic"
    /\ ret.kind = "nil"
    /\ args.key = MultibaseEncode(122, NewCidV1(112, Sha256Multihash(1)))
    /\ VersionOf(args.key) = 1
    /\ VersionOf(B58Encode(Sha256Multihash(1))) = 0
    /\ stdout = Println(getPubSubTopic(B58Encode(Sha256Multihash(1))).val)

\* C3: a topic that does not start with "/record/" is refused with an error
\* value: get-key neither prints an identifier nor crashes.
C3_PrefixRequired ==
    (cmd = "get-key" /\ ~HasPrefix(args.topic, RecordPrefix))
        => (ret.kind = "error" /\ stdout = <<>>)

\* the bytes the topic's text after "/record/" decodes to
PayloadOf(topic) == Base64RawURLDecode(SliceFrom(topic, Len(RecordPrefix)))

\* C4: a topic "/record/" + base64rawurl(b) whose b does not start with
\* "/ipns/" is refused with an error value: get-key neither prints an
\* identifier nor crashes.
C4_IpnsPrefixRequired ==
    (/\ cmd = "get-key"
     /\ HasPrefix(args.topic, RecordPrefix)
     /\ PayloadOf(args.topic).ok
     /\ ~HasPrefix(PayloadOf(args.topic).bytes, IpnsPrefix))
        => (ret.kind = "error" /\ stdout = <<>>)

\* C5 as claimed: with a --format other than 0 or 1, get-key fails with
\* UnsupportedCIDVersion and prints nothing, whatever the topic is.
C5_AlwaysUnsupportedVersion ==
    (cmd = "get-key" /\ args.format \notin {0, 1})
        => (ret = Fail(Err("UnsupportedCIDVersion")) /\ stdout = <<>>)

\* a topic whose text after the first 8 characters is base64 of 6 bytes
\* followed by the bytes of a CID: the topics getIPNSKey finds a CID in
HoldsCid(topic) ==
    /\ Len(topic) >= Len(RecordPrefix)
    /\ PayloadOf(topic).ok
    /\ Len(PayloadOf(topic).bytes) >= Len(IpnsPrefix)
    /\ CidCast(SliceFrom(PayloadOf(topic).bytes, Len(IpnsPrefix))).ok

\* C5 as amended: with a --format other than 0 or 1, get-key never succeeds
\* and prints nothing; it fails with UnsupportedCIDVersion when the topic
\* holds a CID, and with the failure of the earlier step when it does not.
C5_UnsupportedVersion ==
    (cmd = "get-key" /\ args.format \notin {0, 1})
        => /\ ret.kind # "nil"
           /\ stdout = <<>>
           /\ HoldsCid(args.topic) <=> ret = Fail(Err("UnsupportedCIDVersion"))

\* C5 witness: the README's topic asked for as CID version 2
C5_Witness ==
    /\ cmd = "get-key"
    /\ args.format = 2
    /\ args.topic = KeyToTopic(IpnsPrefix \o Sha256Multihash(1))
    /\ ret = Fail(Err("UnsupportedCIDVersion"))
    /\ stdout = <<>>

\* C6: for a topic "/record/" + base64rawurl("/ipns/" + multihash), sha2-256
\* or identity, --format 0 prints the base58 CIDv0 of the multihash and
\* --format 1 the base32 CIDv1 with the libp2p-key codec over it.
C6_OutputForm ==
    \A h \in MultihashInputs :
        (cmd = "get-key" /\ args.topic = KeyToTopic(IpnsPrefix \o h)
                         /\ args.format \in {0, 1} /\ "stdout" \notin broken)
            => /\ ret.kind = "nil"
               /\ stdout = Println(IF args.format = 0 THEN B58Encode(h)
                                   ELSE MultibaseEncode(98, NewCidV1(Libp2pKey, h)))

(***************************************************************************)
(* Claims about the record commands                                        *)
(***************************************************************************)
\* the record parse record decoded has every field but the sequence number,
\* and the validity type EOL
LacksOnlySequence ==
    /\ cmd = "parse-record"
    /\ rec.Value.has /\ rec.Signature.has /\ rec.Validity.has
    /\ rec.ValidityType = Some(0)
    /\ GetEOL(rec).ok
    /\ ~rec.Sequence.has

\* C7: parsing a record that lacks only its sequence number fails with an
\* error value: it neither prints the record nor crashes.
C7_MissingSequence == LacksOnlySequence => (ret.kind = "error" /\ stdout = <<>>)

\* a parse record that was given what create record wrote for fed.flags
ParsedCreated == cmd = "parse-record" /\ fed.cmd = "create-record"

\* C8: record round trip. Parsing what create record wrote succeeds and
\* shows the value, the sequence number, the end of life and the ttl the
\* record was created with.
C8_RecordRoundTrip ==
    ParsedCreated
        => /\ ret.kind = "nil"
           /\ rec.Value = Some(fed.flags.value)
           /\ rec.Sequence = Some(fed.flags.seqno)
           /\ TimeEqual(GetEOL(rec).t,
                        ResolveEOL(fed.flags.eol, fed.flags.lifetime, fed.now))
           /\ rec.Ttl.has /\ ToInt64(rec.Ttl.v) = fed.flags.ttl
           /\ stdout = RecordText(fed.flags.value, fed.flags.seqno,
                                  ResolveEOL(fed.flags.eol, fed.flags.lifetime, fed.now),
                                  fed.flags.ttl,
                                  IF rec.PubKey.has THEN MultibaseEncode(102, rec.PubKey.v)
                                  ELSE <<>>)

\* createIPNSRecord built and signed a record
Created == cmd = "create-record" /\ rec.Signature.has

\* the public key of the key create record was given
SignerOf(flags) == GetPublic(LoadKey(Files, flags.keyFile, flags.keyEncoded).key)

\* C9: embedding rule. A created record holds the signer's public key
\* exactly when the peer id of that key is its sha2-256 multihash (the
\* serialized key is longer than 42 bytes), not the identity multihash that
\* holds the key itself.
C9_EmbeddingRule ==
    Created
        => /\ rec.PubKey.has
                <=> Uvarint(IDFromPublicKey(SignerOf(args.flags))).val = 18
           /\ rec.PubKey.has => rec.PubKey.v = MarshalKey(SignerOf(args.flags))
           /\ rec.PubKey.has <=> Len(MarshalKey(SignerOf(args.flags))) > 42

\* C9 witness: records were made with the ed25519 key (none embedded) and
\* with the RSA key (embedded); this is the RSA one.
C9_Witness ==
    /\ Created
    /\ ret.kind = "nil"
    /\ args.flags.keyFile = RsaKeyPath
    /\ rec.PubKey = Some(MarshalKey(GetPublic(PrivKeyOf(0))))

\* C10: end of life of a created record: now + lifetime when --lifetime is
\* set and --eol is not, now + 24h when neither is set, the --eol given
\* when only that is set.
C10_EolResolution ==
    Created
        => LET a == args.flags
               t == GetEOL(rec).t
           IN  /\ GetEOL(rec).ok
               /\ (a.lifetime.has /\ ~a.eol.has)
                      => TimeEqual(t, TimeAdd(args.now, a.lifetime.v))
               /\ (~a.lifetime.has /\ ~a.eol.has)
                      => TimeEqual(t, TimeAdd(args.now, 24 * Hour))
               /\ (~a.lifetime.has /\ a.eol.has) => TimeEqual(t, a.eol.v)

\* C10 witness: a record created with --lifetime 1h and no --eol ends one
\* hour after the clock reading of the run.
C10_Witness ==
    /\ Created
    /\ args.flags.lifetime = Some(Hour)
    /\ ~args.flags.eol.has
    /\ GetEOL(rec).t.sec - args.now.sec = 3600

\* C11: parsing never reads the signature. Whatever record parse record
\* decoded, the same record under any other signature is parsed with the
\* same outcome and the same text; a record whose signature no key made is
\* parsed successfully.
C11_SignatureNotRead ==
    (cmd = "parse-record" /\ rec.Signature.has)
        => \A sig \in SignatureInputs \cup {<<>>} :
               \E other \in {parseIPNSRecord(
                                 Marshal([rec EXCEPT !.Signature = Some(sig)]).bytes)} :
                   /\ other.ret = ret
                   /\ other.out = stdout
                   /\ other.rec = [rec EXCEPT !.Signature = Some(sig)]

\* C11 witness: the record create record made with the RSA key was parsed
\* and shown although its signature had been replaced by one byte.
C11_Witness ==
    /\ ParsedCreated
    /\ fed.flags.keyFile = RsaKeyPath
    /\ fed.made.Signature # rec.Signature
    /\ rec = [fed.made EXCEPT !.Signature = Some(<<255>>)]
    /\ ret.kind = "nil"
    /\ stdout = RecordText(fed.flags.value, fed.flags.seqno, GetEOL(fed.made).t,
                           fed.flags.ttl, MultibaseEncode(102, rec.PubKey.v))

(***************************************************************************)
(* Claims about errors and output                                          *)
(***************************************************************************)
\* the command had to write to a stream that takes nothing: every command
\* that succeeds writes to stdout, and create id writes to stderr first
WriteFailed ==
    /\ cmd # "none"
    /\ "stdout" \in broken \/ (cmd = "create-id" /\ "stderr" \in broken)

\* C12: every error is surfaced. A command one of whose operations failed,
\* the write of its output to stdout included, returns an error: none
\* returns nil although it could not write.
C12_ErrorsSurfaced == WriteFailed => ret.kind # "nil"

\* C13: no partial output. A command that ends in failure has written
\* nothing itself, neither to stdout nor to stderr.
C13_NoPartialOutput ==
    (cmd # "none" /\ ret.kind # "nil") => (stdout = <<>> /\ stderr = <<>>)

\* the flags of create record name no key or two, or both ends of life
KeyConflict(a) == (a.keyFile # <<>>) <=> (a.keyEncoded # <<>>)

EolConflict(a) == a.lifetime.has /\ a.eol.has

\* C14: argument conflicts in create record. With both or neither of
\* --key-file and --key-encoded, or with both --lifetime and --eol, the
\* command returns the error of that conflict, no key having been read and
\* no record made or written; a record is written only without a conflict.
C14_ArgumentConflicts ==
    cmd = "create-record"
        => /\ EolConflict(args.flags)
                  => ret = Fail(Err("cannot define lifetime and eol on a record, choose one"))
           /\ (~EolConflict(args.flags) /\ KeyConflict(args.flags))
                  => ret = Fail(Err(IF args.flags.keyFile # <<>>
                                    THEN "cannot pass a key file and encoded key"
                                    ELSE "no key specified, specify a key file or encoded key"))
           /\ (EolConflict(args.flags) \/ KeyConflict(args.flags))
                  => (rec = EmptyEntry /\ stdout = <<>>)
           /\ (rec # EmptyEntry \/ stdout # <<>>)
                  => (~EolConflict(args.flags) /\ ~KeyConflict(args.flags))

\* C14 witness: --key-file named a file that is not there and --key-encoded
\* a good key; the command refused the pair without looking for the file.
C14_Witness ==
    /\ cmd = "create-record"
    /\ args.flags.keyFile = MissingPath
    /\ MultibaseDecode(args.flags.keyEncoded).ok
    /\ UnmarshalPrivateKey(MultibaseDecode(args.flags.keyEncoded).bytes).ok
    /\ ~EolConflict(args.flags)
    /\ ret = Fail(Err("cannot pass a key file and encoded key"))
    /\ rec = EmptyEntry
    /\ stdout = <<>>

=============================================================================
